---- MODULE Spec2Model ----
(***************************************************************************)
(* Model of the coffee catalogue service of src/main.py: a table of coffee *)
(* rows (abarorm / SQLite), an upload directory on disk, and the five      *)
(* handlers create_coffee, list_coffees, get_coffee, update_coffee and     *)
(* delete_coffee.                                                          *)
(*                                                                         *)
(* Strings that the code only stores and copies are TLA+ strings.  Paths   *)
(* are sequences of tokens, "/" being the separator, so that os.path.join  *)
(* and os.path.basename are computed as Python computes them.  Floats      *)
(* (rate, price) are written in tenths: 45 is 4.5.                         *)
(***************************************************************************)
EXTENDS Integers, Sequences, FiniteSets, TLC

VARIABLES
    table,      \* the Coffee table: id -> row (all columns but id)
    files,      \* the regular files on disk, by resolved location
    seq,        \* sqlite_sequence: the largest id assigned (AUTOINCREMENT only)
    autoinc,    \* whether the id column is declared AUTOINCREMENT
    response,   \* the response of the last completed request
    procs,      \* the requests in flight (step-level specifications)
    start       \* the store when the requests in flight were issued

vars == <<table, files, seq, autoinc, response, procs, start>>

\* ------------------------------------------------------------------ bounds

\* Ids are assigned up to MaxId; create is disabled beyond it.
MaxId == 2

\* ------------------------------------------------------------------ data

\* The columns of Coffee other than id and image.
Fields ==
    {"coffeeName", "coffeeType", "rate", "commentCount", "price", "isLiked",
     "desc", "buyCount", "coffeeShopLocation", "coffeeAddress"}

Columns == Fields \cup {"image"}

Ids == 1..MaxId

\* The form a create request carries: every field, as Form(...) requires.
LatteForm ==
    [f \in Fields |->
        CASE f = "coffeeName" -> "Latte"
          [] f = "coffeeType" -> "hot"
          [] f = "rate" -> 45
          [] f = "commentCount" -> 3
          [] f = "price" -> 45
          [] f = "isLiked" -> TRUE
          [] f = "desc" -> "milky"
          [] f = "buyCount" -> 7
          [] f = "coffeeShopLocation" -> "35.7,51.4"
          [] f = "coffeeAddress" -> "Main St"]

CreateForms == {LatteForm}

\* The parameters an update request carries: any subset of the fields; a
\* parameter that is not supplied is None in the handler.
EmptyForm == [f \in {} |-> 0]
RateForm == [f \in {"rate"} |-> 50]
RateDescLikedForm ==
    [f \in {"rate", "desc", "isLiked"} |->
        CASE f = "rate" -> 50 [] f = "desc" -> "" [] f = "isLiked" -> FALSE]

UpdateForms == {EmptyForm, RateForm, RateDescLikedForm}

\* ------------------------------------------------------------------ paths

UPLOAD_DIR == <<"uploads">>

\* The filenames a client may send with an upload (UploadFile.filename is the
\* client's string, unchanged): two plain names, a name that climbs out of the
\* upload directory, and a name that is a directory.
PlainNames == {<<"latte.png">>, <<"mocha.png">>}
UploadNames == PlainNames \cup {<<"..", "/", "latte.png">>, <<"..">>}

\* No file was sent with the request (image is None).
NoFile == <<>>

\* os.path.join(a, b)
JoinPath(a, b) ==
    IF b # <<>> /\ b[1] = "/" THEN b
    ELSE IF a = <<>> \/ a[Len(a)] = "/" THEN a \o b
    ELSE a \o <<"/">> \o b

\* The index of the last "/" of p, 0 when there is none.
LastSlash(p) ==
    LET S == {i \in 1..Len(p) : p[i] = "/"}
    IN IF S = {} THEN 0 ELSE CHOOSE i \in S : \A j \in S : j <= i

\* os.path.basename(p)
BaseName(p) == SubSeq(p, LastSlash(p) + 1, Len(p))

\* f"/uploads/{os.path.basename(p)}"
PublicUrl(p) == <<"/", "uploads", "/">> \o BaseName(p)

\* The directory the process runs in, and the directories that exist: the
\* file system root, the working directory and the upload directory the
\* module creates in it at import.
CWD == <<"app">>
Dirs == {<<>>, CWD, CWD \o UPLOAD_DIR}

\* The location a path names: the components from the file system root, a
\* relative path starting at the working directory, ".." climbing one up.
RECURSIVE Walk(_, _)
Walk(at, p) ==
    IF p = <<>> THEN at
    ELSE IF Head(p) = "/" THEN Walk(at, Tail(p))
    ELSE IF Head(p) = ".."
        THEN Walk(IF at = <<>> THEN at ELSE SubSeq(at, 1, Len(at) - 1), Tail(p))
    ELSE Walk(Append(at, Head(p)), Tail(p))

Resolve(p) == IF p # <<>> /\ p[1] = "/" THEN Walk(<<>>, p) ELSE Walk(CWD, p)

\* open(p, "wb") succeeds: p names no directory and its parent exists.
CanOpen(p) ==
    LET at == Resolve(p)
    IN /\ at \notin Dirs
       /\ at # <<>>
       /\ SubSeq(at, 1, Len(at) - 1) \in Dirs

\* with open(p, "wb") as f: f.write(...)
WriteFile(fs, p) == fs \cup {Resolve(p)}

\* os.path.exists(p)
PathExists(fs, p) == Resolve(p) \in fs \cup Dirs

\* os.remove(p) left out: the file stays on disk.
RemoveFileSkipped(fs, p) == fs

\* os.remove(p)
RemoveFile(fs, p) == fs \ {Resolve(p)}

\* ------------------------------------------------------------------ storage

NoRows == [i \in {} |-> 0]

MaxOf(S) == IF S = {} THEN 0 ELSE CHOOSE i \in S : \A j \in S : j <= i

\* The id an INSERT assigns: one more than the largest id in the table
\* (SQLite's rowid) and, when the column is AUTOINCREMENT, than the largest id
\* ever assigned, which SQLite then keeps in sqlite_sequence.
NewId(t, s, auto) == IF auto THEN MaxOf(DOMAIN t \cup {s}) + 1 ELSE MaxOf(DOMAIN t) + 1

\* sqlite_sequence after the INSERT that assigned id.
NewSeq(s, id, auto) == IF auto THEN id ELSE s

\* coffee_obj.save() of a new object: INSERT
InsertRow(t, id, row) == [i \in DOMAIN t \cup {id} |-> IF i = id THEN row ELSE t[i]]

\* coffee.save() of a fetched object: UPDATE ... WHERE id = ?
UpdateRow(t, id, row) == [i \in DOMAIN t |-> IF i = id THEN row ELSE t[i]]

\* Coffee.delete(id = coffee_id)
DeleteRow(t, id) == [i \in DOMAIN t \ {id} |-> t[i]]

\* ------------------------------------------------------------------ responses

NoResponse == [op |-> "none", status |-> 0, id |-> 0, detail |-> "", body |-> NoRows]

NotFound(op, id) ==
    [op |-> op, status |-> 404, id |-> id, detail |-> "Coffee not found", body |-> NoRows]

ServerError(op, id) ==
    [op |-> op, status |-> 500, id |-> id, detail |-> "Internal Server Error", body |-> NoRows]

Ok(op, id, detail, body) ==
    [op |-> op, status |-> 200, id |-> id, detail |-> detail, body |-> body]

One(id, row) == [i \in {id} |-> row]

\* ------------------------------------------------------------------ handlers

\* The row create_coffee builds: the form's fields and the saved path.
CoffeeData(form, path) == [c \in Columns |-> IF c = "image" THEN path ELSE form[c]]

\* The same with "coffee.desc = desc or ''" in place of the None test on desc.
ApplyFieldsDescDefault(row, form) ==
    [c \in Columns |->
        IF c \in DOMAIN form THEN form[c] ELSE IF c = "desc" THEN "" ELSE row[c]]

\* The in-memory object after "if x is not None: coffee.x = x" for each field.
ApplyFields(row, form) ==
    [c \in Columns |-> IF c \in DOMAIN form THEN form[c] ELSE row[c]]

\* The in-memory object after "if image: ... coffee.image = image_path".
ApplyImage(row, name) ==
    IF name = NoFile THEN row
    ELSE [row EXCEPT !["image"] = JoinPath(UPLOAD_DIR, name)]

\* The response built from the object as fetched, image not rewritten.
RewrittenNot(row) == row

\* coffee_dict["image"] = f"/uploads/{os.path.basename(coffee_dict['image'])}"
Rewritten(row) == [row EXCEPT !["image"] = PublicUrl(row["image"])]

\* A store is the table, the disk and the id sequence; an outcome is the
\* store a handler leaves and the response it returns.
Store(t, fs, s) == [table |-> t, files |-> fs, seq |-> s]

Outcome(t, fs, s, r) == [table |-> t, files |-> fs, seq |-> s, resp |-> r]

\* create_coffee
CreateCoffee(st, auto, form, name) ==
    LET path == JoinPath(UPLOAD_DIR, name)
        id == NewId(st.table, st.seq, auto)
        row == CoffeeData(form, path)
    IN IF ~CanOpen(path)
       THEN Outcome(st.table, st.files, st.seq, ServerError("create", 0))
       ELSE Outcome(InsertRow(st.table, id, row), WriteFile(st.files, path),
                    NewSeq(st.seq, id, auto),
                    Ok("create", id, "", One(id, row)))

\* list_coffees
ListCoffees(st) == Outcome(st.table, st.files, st.seq, Ok("list", 0, "", st.table))

\* get_coffee
GetCoffee(st, id) ==
    IF id \notin DOMAIN st.table
    THEN Outcome(st.table, st.files, st.seq, NotFound("get", id))
    ELSE Outcome(st.table, st.files, st.seq,
                 Ok("get", id, "", One(id, Rewritten(st.table[id]))))

\* update_coffee
UpdateCoffee(st, id, form, name) ==
    IF id \notin DOMAIN st.table
    THEN Outcome(st.table, st.files, st.seq, NotFound("update", id))
    ELSE LET coffee == ApplyImage(ApplyFields(st.table[id], form), name)
         IN IF name # NoFile /\ ~CanOpen(JoinPath(UPLOAD_DIR, name))
            THEN Outcome(st.table, st.files, st.seq, ServerError("update", id))
            ELSE Outcome(UpdateRow(st.table, id, coffee),
                         IF name = NoFile THEN st.files
                         ELSE WriteFile(st.files, JoinPath(UPLOAD_DIR, name)),
                         st.seq,
                         Ok("update", id, "", One(id, Rewritten(coffee))))

\* delete_coffee without the "if not coffee" test: an id that resolves to no
\* record is answered like a deleted one.
DeleteCoffeeUnchecked(st, id) ==
    LET fs == IF id \in DOMAIN st.table /\ PathExists(st.files, st.table[id]["image"])
              THEN RemoveFile(st.files, st.table[id]["image"]) ELSE st.files
    IN Outcome(DeleteRow(st.table, id), fs, st.seq,
               Ok("delete", id, "Coffee deleted successfully", NoRows))

\* delete_coffee
DeleteCoffee(st, id) ==
    IF id \notin DOMAIN st.table
    THEN Outcome(st.table, st.files, st.seq, NotFound("delete", id))
    ELSE LET image == st.table[id]["image"]
         IN IF Resolve(image) \in Dirs
            THEN \* os.remove of a directory raises
                 Outcome(st.table, st.files, st.seq, ServerError("delete", id))
            ELSE Outcome(DeleteRow(st.table, id),
                         IF PathExists(st.files, image)
                         THEN RemoveFile(st.files, image) ELSE st.files,
                         st.seq,
                         Ok("delete", id, "Coffee deleted successfully", NoRows))

\* ------------------------------------------------------------------ requests served one at a time

Procs == {1, 2}

\* A worker thread that serves no request.
IdleProc ==
    [pc |-> "idle", op |-> "none", id |-> 0, form |-> EmptyForm, name |-> NoFile,
     coffee |-> NoRows, failed |-> FALSE, resp |-> NoResponse]

Idle == [p \in Procs |-> IdleProc]

NoStore == Store(NoRows, {}, 0)

Now == Store(table, files, seq)

Serve(out) ==
    /\ table' = out.table
    /\ files' = out.files
    /\ seq' = out.seq
    /\ response' = out.resp
    /\ UNCHANGED <<autoinc, procs, start>>

Init ==
    /\ table = NoRows
    /\ files = {}
    /\ seq = 0
    /\ autoinc \in BOOLEAN
    /\ response = NoResponse
    /\ procs = Idle
    /\ start = NoStore

Create ==
    \E form \in CreateForms, name \in UploadNames :
        /\ NewId(table, seq, autoinc) <= MaxId
        /\ Serve(CreateCoffee(Now, autoinc, form, name))

List == Serve(ListCoffees(Now))

Get == \E id \in Ids : Serve(GetCoffee(Now, id))

Update ==
    \E id \in Ids, form \in UpdateForms, name \in UploadNames \cup {NoFile} :
        Serve(UpdateCoffee(Now, id, form, name))

Delete == \E id \in Ids : Serve(DeleteCoffee(Now, id))

Next == Create \/ List \/ Get \/ Update \/ Delete

Spec == Init /\ [][Next]_vars

\* ------------------------------------------------------------------ requests served statement by statement

\* The requests a client may send.
Request(op, id, form, name) == [op |-> op, id |-> id, form |-> form, name |-> name]

Requests ==
    {Request("create", 0, form, name) : form \in CreateForms, name \in UploadNames}
    \cup {Request("update", x[1], x[2], x[3]) :
            x \in Ids \X UpdateForms \X (UploadNames \cup {NoFile})}
    \cup {Request("delete", id, EmptyForm, NoFile) : id \in Ids}

\* The store after a create served alone.
Created(st, auto, name) ==
    LET out == CreateCoffee(st, auto, LatteForm, name)
    IN Store(out.table, out.files, out.seq)

\* The stores the requests start from: empty, one record, two records.
StartStores(auto) ==
    {NoStore,
     Created(NoStore, auto, <<"latte.png">>),
     Created(Created(NoStore, auto, <<"latte.png">>), auto, <<"mocha.png">>)}

InitSteps ==
    /\ autoinc \in BOOLEAN
    /\ start \in StartStores(autoinc)
    /\ table = start.table
    /\ files = start.files
    /\ seq = start.seq
    /\ response = NoResponse
    /\ procs = Idle

\* create_coffee with the two statements in the other order: the row is
\* inserted before the file is written.
FirstPcSaveFirst(op) ==
    CASE op = "create" -> "c_save"
      [] op = "update" -> "u_get"
      [] op = "delete" -> "d_get"

\* The statement a handler starts at.
FirstPc(op) ==
    CASE op = "create" -> "c_write"
      [] op = "update" -> "u_get"
      [] op = "delete" -> "d_get"

CreatesInFlight == Cardinality({p \in Procs : procs[p].op = "create"})

Goto(p, pc) == procs' = [procs EXCEPT ![p].pc = pc]

\* The handler returns r (or raises, and the framework answers r).
Return(p, r) == procs' = [procs EXCEPT ![p].pc = "done", ![p].resp = r]

\* The storage call raises: the handler ends there with a server error.
Raise(p) ==
    procs' = [procs EXCEPT ![p].pc = "done", ![p].failed = TRUE,
                           ![p].resp = ServerError(procs[p].op, procs[p].id)]

\* A worker thread takes a request.
Begin(p) ==
    /\ procs[p].pc = "idle"
    /\ \E r \in Requests :
        /\ r.op = "create" => MaxOf(DOMAIN table \cup {seq}) + CreatesInFlight < MaxId
        /\ procs' = [procs EXCEPT ![p] =
                        [IdleProc EXCEPT !.pc = FirstPc(r.op), !.op = r.op, !.id = r.id,
                                         !.form = r.form, !.name = r.name]]
    /\ UNCHANGED <<table, files, seq, autoinc, response, start>>

\* create_coffee: with open(image_path, "wb") as f: f.write(...)
CreateWrite(p) ==
    /\ procs[p].pc = "c_write"
    /\ LET path == JoinPath(UPLOAD_DIR, procs[p].name)
       IN IF CanOpen(path)
          THEN files' = WriteFile(files, path) /\ Goto(p, "c_save")
          ELSE files' = files /\ Return(p, ServerError("create", 0))
    /\ UNCHANGED <<table, seq, autoinc, response, start>>

\* create_coffee: coffee_obj.save(); return coffee_obj
CreateSave(p) ==
    /\ procs[p].pc = "c_save"
    /\ LET id == NewId(table, seq, autoinc)
           row == CoffeeData(procs[p].form, JoinPath(UPLOAD_DIR, procs[p].name))
       IN /\ table' = InsertRow(table, id, row)
          /\ seq' = NewSeq(seq, id, autoinc)
          /\ Return(p, Ok("create", id, "", One(id, row)))
    /\ UNCHANGED <<files, autoinc, response, start>>

\* create_coffee: coffee_obj.save() raises
CreateSaveFails(p) ==
    /\ procs[p].pc = "c_save"
    /\ Raise(p)
    /\ UNCHANGED <<table, files, seq, autoinc, response, start>>

\* update_coffee: Coffee.get, the 404 test and the field assignments
UpdateGet(p) ==
    /\ procs[p].pc = "u_get"
    /\ IF procs[p].id \in DOMAIN table
       THEN procs' = [procs EXCEPT
                ![p].coffee = ApplyFields(table[procs[p].id], procs[p].form),
                ![p].pc = IF procs[p].name = NoFile THEN "u_save" ELSE "u_write"]
       ELSE Return(p, NotFound("update", procs[p].id))
    /\ UNCHANGED <<table, files, seq, autoinc, response, start>>

\* update_coffee: if image: write the file, coffee.image = image_path
UpdateWrite(p) ==
    /\ procs[p].pc = "u_write"
    /\ LET path == JoinPath(UPLOAD_DIR, procs[p].name)
       IN IF CanOpen(path)
          THEN /\ files' = WriteFile(files, path)
               /\ procs' = [procs EXCEPT
                      ![p].coffee = ApplyImage(procs[p].coffee, procs[p].name),
                      ![p].pc = "u_save"]
          ELSE files' = files /\ Return(p, ServerError("update", procs[p].id))
    /\ UNCHANGED <<table, seq, autoinc, response, start>>

\* update_coffee: coffee.save() and the response
UpdateSave(p) ==
    /\ procs[p].pc = "u_save"
    /\ table' = UpdateRow(table, procs[p].id, procs[p].coffee)
    /\ Return(p, Ok("update", procs[p].id, "", One(procs[p].id, Rewritten(procs[p].coffee))))
    /\ UNCHANGED <<files, seq, autoinc, response, start>>

\* update_coffee: coffee.save() raises
UpdateSaveFails(p) ==
    /\ procs[p].pc = "u_save"
    /\ Raise(p)
    /\ UNCHANGED <<table, files, seq, autoinc, response, start>>

\* delete_coffee: Coffee.get and the 404 test
DeleteGet(p) ==
    /\ procs[p].pc = "d_get"
    /\ IF procs[p].id \in DOMAIN table
       THEN procs' = [procs EXCEPT ![p].coffee = table[procs[p].id], ![p].pc = "d_exists"]
       ELSE Return(p, NotFound("delete", procs[p].id))
    /\ UNCHANGED <<table, files, seq, autoinc, response, start>>

\* delete_coffee: if os.path.exists(coffee.image)
DeleteExists(p) ==
    /\ procs[p].pc = "d_exists"
    /\ Goto(p, IF PathExists(files, procs[p].coffee["image"]) THEN "d_remove" ELSE "d_delete")
    /\ UNCHANGED <<table, files, seq, autoinc, response, start>>

\* delete_coffee: os.remove(coffee.image), FileNotFoundError when the file
\* went away after the test
DeleteRemove(p) ==
    /\ procs[p].pc = "d_remove"
    /\ IF Resolve(procs[p].coffee["image"]) \in files
       THEN files' = RemoveFile(files, procs[p].coffee["image"]) /\ Goto(p, "d_delete")
       ELSE files' = files /\ Return(p, ServerError("delete", procs[p].id))
    /\ UNCHANGED <<table, seq, autoinc, response, start>>

\* delete_coffee: Coffee.delete(id = coffee_id) and the confirmation
DeleteDelete(p) ==
    /\ procs[p].pc = "d_delete"
    /\ table' = DeleteRow(table, procs[p].id)
    /\ Return(p, Ok("delete", procs[p].id, "Coffee deleted successfully", NoRows))
    /\ UNCHANGED <<files, seq, autoinc, response, start>>

\* delete_coffee: Coffee.delete raises
DeleteDeleteFails(p) ==
    /\ procs[p].pc = "d_delete"
    /\ Raise(p)
    /\ UNCHANGED <<table, files, seq, autoinc, response, start>>

\* The response leaves the server.
Respond(p) ==
    /\ procs[p].pc = "done"
    /\ response' = procs[p].resp
    /\ Goto(p, "sent")
    /\ UNCHANGED <<table, files, seq, autoinc, start>>

Step(p) ==
    \/ Begin(p)
    \/ CreateWrite(p)
    \/ CreateSave(p)
    \/ CreateSaveFails(p)
    \/ UpdateGet(p)
    \/ UpdateWrite(p)
    \/ UpdateSave(p)
    \/ UpdateSaveFails(p)
    \/ DeleteGet(p)
    \/ DeleteExists(p)
    \/ DeleteRemove(p)
    \/ DeleteDelete(p)
    \/ DeleteDeleteFails(p)
    \/ Respond(p)

\* One request, statement by statement.
NextSteps == Step(1)

SpecSteps == InitSteps /\ [][NextSteps]_vars

\* Two worker threads, their statements interleaved in any order.
NextConc == \E p \in Procs : Step(p)

SpecConc == InitSteps /\ [][NextConc]_vars

\* ------------------------------------------------------------------ claims, requests served one at a time

UpdateInputs == UpdateForms \X (UploadNames \cup {NoFile})

\* C1: delete_coffee on an id that resolves to no record answers 404 "Coffee
\* not found" and leaves the table and the files on disk as they were.
DeleteAbsentChangesNothing ==
    \A id \in Ids \ DOMAIN table :
        LET out == DeleteCoffee(Now, id)
        IN /\ out.resp.status = 404
           /\ out.resp.detail = "Coffee not found"
           /\ out.table = table
           /\ out.files = files

\* C1 witness: a delete was answered 404 while rows and files were there to lose.
DeleteAbsentHappened ==
    /\ response.op = "delete"
    /\ response.status = 404
    /\ response.id \notin DOMAIN table
    /\ table # NoRows
    /\ files # {}

\* C2: update_coffee on an existing record changes exactly the columns the
\* request supplies: a supplied field takes the supplied value, a field that is
\* not supplied keeps its stored value, image changes only when a file is sent,
\* the set of ids and every other row stay as they were, and a request with no
\* field and no file leaves the table as it was.
UpdateChangesOnlySupplied ==
    \A id \in DOMAIN table : \A in \in UpdateInputs :
        LET form == in[1]
            name == in[2]
            out == UpdateCoffee(Now, id, form, name)
        IN out.resp.status = 200 =>
            /\ DOMAIN out.table = DOMAIN table
            /\ \A i \in DOMAIN table \ {id} : out.table[i] = table[i]
            /\ \A c \in Fields :
                  out.table[id][c] = IF c \in DOMAIN form THEN form[c] ELSE table[id][c]
            /\ name = NoFile => out.table[id]["image"] = table[id]["image"]
            /\ (form = EmptyForm /\ name = NoFile) =>
                  (out.table = table /\ out.files = files)

\* C2 witness: after PUT with only rate = 5.0 the row has the new rate and the
\* name, description and image it was created with.
UpdateOnlyRateHappened ==
    /\ response.op = "update"
    /\ response.status = 200
    /\ response.id \in DOMAIN table
    /\ table[response.id]["rate"] = 50
    /\ table[response.id]["coffeeName"] = "Latte"
    /\ table[response.id]["desc"] = "milky"
    /\ table[response.id]["image"] = <<"uploads", "/", "latte.png">>

\* C4: delete_coffee on an existing record answers with the confirmation,
\* leaves no row for the id and no file at the row's image path; get_coffee on
\* an id with no row answers 404; and an id with no row gets one again only by
\* a create that is assigned that id.
DeletedStaysGone ==
    /\ [](\A id \in Ids :
            IF id \in DOMAIN table
            THEN LET out == DeleteCoffee(Now, id)
                 IN /\ out.resp = Ok("delete", id, "Coffee deleted successfully", NoRows)
                    /\ id \notin DOMAIN out.table
                    /\ Resolve(table[id]["image"]) \notin out.files
                    /\ GetCoffee(Store(out.table, out.files, out.seq), id).resp.status = 404
            ELSE GetCoffee(Now, id).resp = NotFound("get", id))
    /\ [][\A id \in Ids :
            (id \notin DOMAIN table /\ id \in DOMAIN table') =>
                (response'.op = "create" /\ response'.status = 200 /\ response'.id = id)]_vars

\* C4 witness: a delete succeeded, its row is gone and so is its file, while
\* another row and its file are still there.
DeleteHappened ==
    /\ response.op = "delete"
    /\ response.status = 200
    /\ response.id \notin DOMAIN table
    /\ Cardinality(DOMAIN table) = 1
    /\ \A id \in DOMAIN table : files = {Resolve(table[id]["image"])}

\* C8: get_coffee and update_coffee answer with image = "/uploads/" followed by
\* the base name of the stored path, which is not the stored path; create_coffee
\* and list_coffees answer with the stored path itself.
ResponseImageForm ==
    /\ \A id \in DOMAIN table :
          LET got == GetCoffee(Now, id).resp
          IN /\ got.status = 200
             /\ got.body[id]["image"] = <<"/", "uploads", "/">> \o BaseName(table[id]["image"])
             /\ got.body[id]["image"] # table[id]["image"]
    /\ \A id \in DOMAIN table : \A in \in UpdateInputs :
          LET out == UpdateCoffee(Now, id, in[1], in[2])
          IN out.resp.status = 200 =>
             /\ out.resp.body[id]["image"] =
                    <<"/", "uploads", "/">> \o BaseName(out.table[id]["image"])
             /\ out.resp.body[id]["image"] # out.table[id]["image"]
    /\ \A form \in CreateForms, name \in UploadNames :
          LET out == CreateCoffee(Now, autoinc, form, name)
          IN out.resp.status = 200 =>
             /\ out.resp.body[out.resp.id]["image"] = out.table[out.resp.id]["image"]
             /\ out.resp.body[out.resp.id]["image"] = UPLOAD_DIR \o <<"/">> \o name
    /\ ListCoffees(Now).resp.body = table

\* C8 witness: a get answered with the public form of a stored raw path.
GetRewroteImage ==
    /\ response.op = "get"
    /\ response.status = 200
    /\ response.id \in DOMAIN table
    /\ table[response.id]["image"] = <<"uploads", "/", "mocha.png">>
    /\ response.body[response.id]["image"] = <<"/", "uploads", "/", "mocha.png">>

\* The location a path names lies inside the upload directory.
UnderUploadDir(p) ==
    LET at == Resolve(p)
        dir == CWD \o UPLOAD_DIR
    IN Len(at) > Len(dir) /\ SubSeq(at, 1, Len(dir)) = dir

\* C5: every row of the table has an image that is not null and is a path
\* under the upload directory.
StoredImageUnderUploadDir ==
    \A id \in DOMAIN table :
        /\ table[id]["image"] # NoFile
        /\ UnderUploadDir(table[id]["image"])

\* C6: no two rows of the table hold the same image path.
NoSharedImagePath ==
    \A i, j \in DOMAIN table : i # j => table[i]["image"] # table[j]["image"]

\* C10: with requests served one at a time and no failure, every row of the
\* table has a file on disk at its image path.
EveryRecordHasItsFile ==
    \A id \in DOMAIN table : Resolve(table[id]["image"]) \in files

\* ------------------------------------------------------------------ claims, statement by statement

\* The path the create request of worker p writes and stores.
CreatePath(p) == JoinPath(UPLOAD_DIR, procs[p].name)

\* C9: create_coffee inserts its row only after it has written its file, so a
\* row it created always has its file on disk; delete_coffee removes the row
\* only after the file is gone, the row still being there when the file is
\* removed; and when save() of create raises, nothing is undone: the file
\* written stays on disk and no row was inserted.
WriteBeforeInsertNoCompensation ==
    /\ [](\A id \in DOMAIN table \ DOMAIN start.table :
            Resolve(table[id]["image"]) \in files)
    /\ []((procs[1].op = "create" /\ procs[1].failed) =>
            (Resolve(CreatePath(1)) \in files /\ table = start.table))
    /\ [][(procs[1].op = "create" /\ table' # table) =>
            (procs[1].pc = "c_save" /\ Resolve(CreatePath(1)) \in files)]_vars
    /\ [][(procs[1].op = "delete" /\ table' # table) =>
            (/\ procs[1].pc = "d_delete"
             /\ Resolve(procs[1].coffee["image"]) \notin files
             /\ files' = files)]_vars
    /\ [][(procs[1].op = "delete" /\ files' # files) =>
            (procs[1].id \in DOMAIN table /\ table' = table)]_vars

\* C9 witness: a create failed at save(), its file is on disk and no row
\* refers to it.
OrphanFileAfterFailedCreate ==
    /\ procs[1].op = "create"
    /\ procs[1].failed
    /\ procs[1].pc = "sent"
    /\ Resolve(CreatePath(1)) \in files
    /\ \A id \in DOMAIN table : table[id]["image"] # CreatePath(1)

\* The outcome of a request served alone on the store st.
Apply(st, r) ==
    CASE r.op = "create" -> CreateCoffee(st, autoinc, r.form, r.name)
      [] r.op = "update" -> UpdateCoffee(st, r.id, r.form, r.name)
      [] r.op = "delete" -> DeleteCoffee(st, r.id)

\* The table, the disk and the two responses are those of serving the request
\* of worker a and then the request of worker b, one after the other.
SerialOrder(a, b) ==
    LET one == Apply(start, procs[a])
        two == Apply(Store(one.table, one.files, one.seq), procs[b])
    IN /\ table = two.table
       /\ files = two.files
       /\ procs[a].resp = one.resp
       /\ procs[b].resp = two.resp

\* C7: when two requests served by two worker threads have both returned (no
\* storage call having raised), the table, the upload directory and the two
\* responses are those of one of the two serial orders.
ConcurrentRequestsSerializable ==
    (\A p \in Procs : procs[p].pc \in {"done", "sent"} /\ ~procs[p].failed) =>
        (SerialOrder(1, 2) \/ SerialOrder(2, 1))

====
